---- MODULE Spec2Model ----
(***************************************************************************)
(* Fabric bridge RPC synchronization service                               *)
(* (examples/fabric-bridge-app/linux/RpcServer.cpp).                       *)
(*                                                                         *)
(* The three RPC handlers of class FabricBridge are modelled from the      *)
(* source.  The collaborators they call (the bridged device manager, the   *)
(* bridged device object and the ecosystem information server) are not     *)
(* part of the source file; they are modelled from their contract in the   *)
(* specification and are marked as such where they are defined.            *)
(***************************************************************************)
EXTENDS Integers, Sequences, FiniteSets, TLC

VARIABLES
    mDevices,      \* the registry: slot index -> bridged device or NoDevice
    mDevicesMap,   \* endpoints the ecosystem information cluster is attached to
    halted,        \* TRUE once a VerifyOrDie has terminated the process
    last,          \* the RPC call that led to this state, and what it returned
    history,       \* per node id: "never" added, "added", or "removed" since
    rt,            \* the service runtime: how far InitRpcServer and the RPC thread are
    rpc,           \* the handler the RPC thread is in the middle of, if any
    mainCalls      \* registry calls made so far by the main processing context

vars == <<mDevices, mDevicesMap, halted, last, history, rt, rpc, mainCalls>>

----------------------------------------------------------------------------
(* Bounds of the model. *)

\* node identifiers range over 1..MaxNodeId
MaxNodeId == 3
\* values in a descriptor's field slots range over 0..MaxVal (0 is the default)
MaxVal == 1
\* a device's activity log is followed up to this many events
MaxLog == 1
\* Registry calls the main processing context makes beside the RPC thread.
MaxMainCalls == 1

NodeIds == 1..MaxNodeId
\* the promised active durations (ms) ActiveChanged is driven with
Durations == {1, 5000}

----------------------------------------------------------------------------
(* Wire-level requests. *)

\* A string of length k; the empty string is Str(0).
Str(k) == [i \in 1..k |-> "x"]

\* The ten optional fields are numbered in the order of the handler's tests.
FieldIdx == 1..10

\* The value in the slot of field i under value pattern p.
SlotVal(p, i) == (p + i) % (MaxVal + 1)

\* chip_rpc_SynchronizedDevice: node_id, and eleven optional fields each
\* with its presence flag.  F is the set of fields whose flag is set; the
\* slots hold values whether or not the flag is set.
SynchronizedDevice(nodeId, F, p, hasIcd, isIcd) ==
    [node_id                     |-> nodeId,
     has_unique_id               |-> 1 \in F,
     unique_id                   |-> Str(SlotVal(p, 1)),
     has_vendor_name             |-> 2 \in F,
     vendor_name                 |-> Str(SlotVal(p, 2)),
     has_vendor_id               |-> 3 \in F,
     vendor_id                   |-> SlotVal(p, 3),
     has_product_name            |-> 4 \in F,
     product_name                |-> Str(SlotVal(p, 4)),
     has_product_id              |-> 5 \in F,
     product_id                  |-> SlotVal(p, 5),
     has_node_label              |-> 6 \in F,
     node_label                  |-> Str(SlotVal(p, 6)),
     has_hardware_version        |-> 7 \in F,
     hardware_version            |-> SlotVal(p, 7),
     has_hardware_version_string |-> 8 \in F,
     hardware_version_string     |-> Str(SlotVal(p, 8)),
     has_software_version        |-> 9 \in F,
     software_version            |-> SlotVal(p, 9),
     has_software_version_string |-> 10 \in F,
     software_version_string     |-> Str(SlotVal(p, 10)),
     has_is_icd                  |-> hasIcd,
     is_icd                      |-> isIcd]

\* chip_rpc_KeepActiveChanged
KeepActiveChanged(nodeId, duration) ==
    [node_id |-> nodeId, promised_active_duration_ms |-> duration]

\* The presence flags AddSynchronizedDevice is driven with: the vendor name
\* alone and no is_icd flag, or every field and the is_icd flag.
FlagSets == {<<{2}, FALSE>>, <<FieldIdx, TRUE>>}

\* The descriptors AddSynchronizedDevice is driven with.  Every slot holds
\* a value, so that an absent flag leaves a stray value behind.
AddRequests ==
    { SynchronizedDevice(n, Fh[1], MaxVal, Fh[2], TRUE) :
        n \in NodeIds, Fh \in FlagSets }

\* RemoveSynchronizedDevice reads node_id alone.
RemoveRequests ==
    { SynchronizedDevice(n, {}, 0, FALSE, FALSE) : n \in NodeIds }

ActiveChangedRequests ==
    { KeepActiveChanged(n, d) : n \in NodeIds, d \in Durations }

\* Every descriptor: all combinations of presence flags, all value patterns.
AllDescriptors ==
    { SynchronizedDevice(1, F, p, h, i) :
        F \in SUBSET FieldIdx, p \in 0..MaxVal, h \in BOOLEAN, i \in BOOLEAN }

----------------------------------------------------------------------------
(* Bridged attributes and the attribute translation. *)

\* BridgedDevice::BridgedAttributes as default-constructed: empty strings
\* and zero numbers.
DefaultAttributes ==
    [uniqueId              |-> Str(0),
     vendorName            |-> Str(0),
     vendorId              |-> 0,
     productName           |-> Str(0),
     productId             |-> 0,
     nodeLabel             |-> Str(0),
     hardwareVersion       |-> 0,
     hardwareVersionString |-> Str(0),
     softwareVersion       |-> 0,
     softwareVersionString |-> Str(0)]

\* Mutant: the vendor name is copied whether or not its flag is set.
TranslateNoFlag(request) ==
    [uniqueId              |-> IF request.has_unique_id THEN request.unique_id
                               ELSE DefaultAttributes.uniqueId,
     vendorName            |-> request.vendor_name,
     vendorId              |-> IF request.has_vendor_id THEN request.vendor_id
                               ELSE DefaultAttributes.vendorId,
     productName           |-> IF request.has_product_name THEN request.product_name
                               ELSE DefaultAttributes.productName,
     productId             |-> IF request.has_product_id THEN request.product_id
                               ELSE DefaultAttributes.productId,
     nodeLabel             |-> IF request.has_node_label THEN request.node_label
                               ELSE DefaultAttributes.nodeLabel,
     hardwareVersion       |-> IF request.has_hardware_version THEN request.hardware_version
                               ELSE DefaultAttributes.hardwareVersion,
     hardwareVersionString |-> IF request.has_hardware_version_string
                               THEN request.hardware_version_string
                               ELSE DefaultAttributes.hardwareVersionString,
     softwareVersion       |-> IF request.has_software_version THEN request.software_version
                               ELSE DefaultAttributes.softwareVersion,
     softwareVersionString |-> IF request.has_software_version_string
                               THEN request.software_version_string
                               ELSE DefaultAttributes.softwareVersionString]

\* The attribute translation of AddSynchronizedDevice: a default-constructed
\* record, each field overwritten when its presence flag is set.
Translate(request) ==
    [uniqueId              |-> IF request.has_unique_id THEN request.unique_id
                               ELSE DefaultAttributes.uniqueId,
     vendorName            |-> IF request.has_vendor_name THEN request.vendor_name
                               ELSE DefaultAttributes.vendorName,
     vendorId              |-> IF request.has_vendor_id THEN request.vendor_id
                               ELSE DefaultAttributes.vendorId,
     productName           |-> IF request.has_product_name THEN request.product_name
                               ELSE DefaultAttributes.productName,
     productId             |-> IF request.has_product_id THEN request.product_id
                               ELSE DefaultAttributes.productId,
     nodeLabel             |-> IF request.has_node_label THEN request.node_label
                               ELSE DefaultAttributes.nodeLabel,
     hardwareVersion       |-> IF request.has_hardware_version THEN request.hardware_version
                               ELSE DefaultAttributes.hardwareVersion,
     hardwareVersionString |-> IF request.has_hardware_version_string
                               THEN request.hardware_version_string
                               ELSE DefaultAttributes.hardwareVersionString,
     softwareVersion       |-> IF request.has_software_version THEN request.software_version
                               ELSE DefaultAttributes.softwareVersion,
     softwareVersionString |-> IF request.has_software_version_string
                               THEN request.software_version_string
                               ELSE DefaultAttributes.softwareVersionString]

----------------------------------------------------------------------------
(* The bridged device and the collaborators of the service.  These are     *)
(* not in RpcServer.cpp; they follow the contract the specification gives. *)

\* nullptr / std::nullopt
NoDevice == [null |-> TRUE]

\* The registry has this many device slots (its capacity limit).
DynamicEndpointCount == 2
\* The first endpoint identifier the registry allocates to bridged devices.
FirstDynamicEndpointId == 2
\* The endpoint of a device that no registry has taken yet.
kInvalidEndpointId == 0

Slots == 0..(DynamicEndpointCount - 1)
EndpointPool == FirstDynamicEndpointId..(FirstDynamicEndpointId + DynamicEndpointCount - 1)

\* BridgedDevice(nodeId): a device that is not reachable, not sleepy, with
\* default attributes, no endpoint and no activity logged.
BridgedDevice(nodeId) ==
    [nodeId           |-> nodeId,
     reachable        |-> FALSE,
     attributes       |-> DefaultAttributes,
     icd              |-> FALSE,
     endpointId       |-> kInvalidEndpointId,
     parentEndpointId |-> kInvalidEndpointId,
     log              |-> <<>>]

SetReachable(dev, reachable) == [dev EXCEPT !.reachable = reachable]
SetBridgedAttributes(dev, attributes) == [dev EXCEPT !.attributes = attributes]
SetIcd(dev, icd) == [dev EXCEPT !.icd = icd]

\* device.LogActiveChangeEvent(durationMs): the activity telemetry update.
LogActiveChangeEvent(dev, duration) == [dev EXCEPT !.log = Append(@, duration)]

Registered(devs) == { devs[i] : i \in { j \in Slots : devs[j] # NoDevice } }
RegisteredNodeIds(devs) == { d.nodeId : d \in Registered(devs) }
UsedEndpoints(devs) == { d.endpointId : d \in Registered(devs) }
FreeSlots(devs) == { i \in Slots : devs[i] = NoDevice }
FreeEndpoints(devs) == EndpointPool \ UsedEndpoints(devs)

\* The least element of a non-empty set of numbers.
Min(S) == CHOOSE x \in S : \A y \in S : x <= y

\* The endpoints the registry may assign to the next device: any endpoint
\* no registered device holds (a released endpoint may be assigned again).
EndpointChoices(devs) ==
    IF FreeEndpoints(devs) = {} THEN {kInvalidEndpointId} ELSE FreeEndpoints(devs)

\* Mutant: the registry does not reject a node id it already holds.
AddDeviceEndpointNoUnique(devs, dev, parentEndpointId, ep, refuse) ==
    IF \/ refuse
       \/ FreeSlots(devs) = {}
       \/ ep \notin FreeEndpoints(devs)
    THEN [has_value |-> FALSE, index |-> 0, devices |-> devs]
    ELSE LET index == Min(FreeSlots(devs))
         IN  [has_value |-> TRUE,
              index     |-> index,
              devices   |-> [devs EXCEPT ![index] =
                                [dev EXCEPT !.endpointId = ep,
                                            !.parentEndpointId = parentEndpointId]]]

\* AddDevice(device, parentGroupId) -> optional<allocated-endpoint>.
\* The registry refuses (no result, nothing stored) on resource exhaustion
\* (refuse), on a node id it already holds, and when no slot or endpoint is
\* free; otherwise it stores the device in the first free slot under
\* endpoint ep.
AddDeviceEndpoint(devs, dev, parentEndpointId, ep, refuse) ==
    IF \/ refuse
       \/ dev.nodeId \in RegisteredNodeIds(devs)
       \/ FreeSlots(devs) = {}
       \/ ep \notin FreeEndpoints(devs)
    THEN [has_value |-> FALSE, index |-> 0, devices |-> devs]
    ELSE LET index == Min(FreeSlots(devs))
         IN  [has_value |-> TRUE,
              index     |-> index,
              devices   |-> [devs EXCEPT ![index] =
                                [dev EXCEPT !.endpointId = ep,
                                            !.parentEndpointId = parentEndpointId]]]

\* The slots holding a device with this node id.
SlotsOf(devs, nodeId) ==
    { i \in Slots : devs[i] # NoDevice /\ devs[i].nodeId = nodeId }

\* FindDeviceByKey(nodeId) -> optional<device-reference>
GetDeviceByNodeId(devs, nodeId) ==
    IF SlotsOf(devs, nodeId) = {} THEN NoDevice
    ELSE devs[Min(SlotsOf(devs, nodeId))]

\* RemoveDeviceByKey(nodeId) -> optional<removed-index>: the device and its
\* endpoint are released.
RemoveDeviceByNodeId(devs, nodeId) ==
    IF SlotsOf(devs, nodeId) = {}
    THEN [has_value |-> FALSE, index |-> 0, devices |-> devs]
    ELSE LET index == Min(SlotsOf(devs, nodeId))
         IN  [has_value |-> TRUE,
              index     |-> index,
              devices   |-> [devs EXCEPT ![index] = NoDevice]]

\* AttachCapability(endpointId) -> result: the ecosystem information cluster
\* is attached to an endpoint once; attaching it to an endpoint that has no
\* device or that carries it already is an error and changes nothing.
AddEcosystemInformationClusterToEndpoint(map, endpointId) ==
    IF endpointId = kInvalidEndpointId \/ endpointId \in map
    THEN [err |-> "CHIP_ERROR_INCORRECT_STATE", map |-> map]
    ELSE [err |-> "CHIP_NO_ERROR", map |-> map \cup {endpointId}]

----------------------------------------------------------------------------
(* The synchronization service: FabricBridge in RpcServer.cpp. *)

\* The parent endpoint every bridged device is added under.
kParentEndpointId == 1

\* What a handler leaves behind: the status it returns ("Died" when a
\* VerifyOrDie ended the process before any status was returned), the
\* registry, the cluster map, and the collaborator calls it made, in order.
Outcome(status, devs, map, calls) ==
    [status |-> status, devices |-> devs, map |-> map, calls |-> calls]

\* Mutant: the device is handed to the registry without SetReachable(true).
MakeDeviceUnreachable(request) ==
    SetIcd(SetBridgedAttributes(BridgedDevice(request.node_id), Translate(request)),
           request.has_is_icd /\ request.is_icd)

\* Mutant: the is_icd slot is used whether or not its presence flag is set.
MakeDeviceIcdNoFlag(request) ==
    SetIcd(SetBridgedAttributes(SetReachable(BridgedDevice(request.node_id), TRUE),
                                Translate(request)),
           request.is_icd)

\* The device AddSynchronizedDevice builds from its request.
MakeDevice(request) ==
    SetIcd(SetBridgedAttributes(SetReachable(BridgedDevice(request.node_id), TRUE),
                                Translate(request)),
           request.has_is_icd /\ request.is_icd)

\* Mutant: Ok is returned without the cluster being attached.
AttachCapabilitySkipped(devs, map, addedDevice, calls) ==
    Outcome("Ok", devs, map, calls)

\* The cluster is attached to the added device's endpoint; failure is fatal.
AttachCapability(devs, map, addedDevice, calls) ==
    LET r == AddEcosystemInformationClusterToEndpoint(map, addedDevice.endpointId)
        made == Append(calls, "AddEcosystemInformationClusterToEndpoint")
    IN  IF r.err # "CHIP_NO_ERROR"
        THEN Outcome("Died", devs, r.map, made)
        ELSE Outcome("Ok", devs, r.map, made)

\* The added device is looked up by node id; a miss is fatal.
LookupAdded(devs, map, nodeId, calls) ==
    LET addedDevice == GetDeviceByNodeId(devs, nodeId)
        made == Append(calls, "GetDeviceByNodeId")
    IN  IF addedDevice = NoDevice
        THEN Outcome("Died", devs, map, made)
        ELSE AttachCapability(devs, map, addedDevice, made)

\* Mutant: the failed add is reported as success.
AddRefusedReturnsOk(devs, map, nodeId, calls) ==
    Outcome("Ok", devs, map, calls)

\* Mutant: the failed add is logged but the handler does not return.
AddRefusedFallsThrough(devs, map, nodeId, calls) ==
    LookupAdded(devs, map, nodeId, calls)

\* The registry gave no result: Unknown is returned at once.
AddRefused(devs, map, nodeId, calls) ==
    Outcome("Unknown", devs, map, calls)

AddSynchronizedDeviceOutcome(devs, map, request, ep, refuse) ==
    LET nodeId == request.node_id
        result == AddDeviceEndpoint(devs, MakeDevice(request), kParentEndpointId, ep, refuse)
    IN  IF ~result.has_value
        THEN AddRefused(result.devices, map, nodeId, <<"AddDeviceEndpoint">>)
        ELSE LookupAdded(result.devices, map, nodeId, <<"AddDeviceEndpoint">>)

\* Mutant: Ok is returned whether or not a device was removed.
RemoveSynchronizedDeviceAlwaysOk(devs, map, request) ==
    Outcome("Ok", RemoveDeviceByNodeId(devs, request.node_id).devices, map,
            <<"RemoveDeviceByNodeId">>)

\* Mutant: a failed removal is reported with the status of a failed add.
RemoveSynchronizedDeviceUnknown(devs, map, request) ==
    LET removed_idx == RemoveDeviceByNodeId(devs, request.node_id)
    IN  IF ~removed_idx.has_value
        THEN Outcome("Unknown", removed_idx.devices, map, <<"RemoveDeviceByNodeId">>)
        ELSE Outcome("Ok", removed_idx.devices, map, <<"RemoveDeviceByNodeId">>)

\* Mutant: a removal also marks the devices that stay as unreachable.
RemoveSynchronizedDeviceMarksRest(devs, map, request) ==
    LET removed_idx == RemoveDeviceByNodeId(devs, request.node_id)
    IN  IF ~removed_idx.has_value
        THEN Outcome("NotFound", removed_idx.devices, map, <<"RemoveDeviceByNodeId">>)
        ELSE Outcome("Ok",
                     [i \in Slots |->
                         IF removed_idx.devices[i] = NoDevice THEN NoDevice
                         ELSE SetReachable(removed_idx.devices[i], FALSE)],
                     map, <<"RemoveDeviceByNodeId">>)

RemoveSynchronizedDeviceOutcome(devs, map, request) ==
    LET nodeId == request.node_id
        removed_idx == RemoveDeviceByNodeId(devs, nodeId)
    IN  IF ~removed_idx.has_value
        THEN Outcome("NotFound", removed_idx.devices, map, <<"RemoveDeviceByNodeId">>)
        ELSE Outcome("Ok", removed_idx.devices, map, <<"RemoveDeviceByNodeId">>)

\* Mutant: the event is logged on every registered device.
LogOnEveryDevice(devs, nodeId, duration) ==
    [i \in Slots |->
        IF devs[i] # NoDevice THEN LogActiveChangeEvent(devs[i], duration) ELSE devs[i]]

\* The registry after LogActiveChangeEvent(duration) on the device with
\* this node id (the handler holds a pointer to the registry's object).
LogOn(devs, nodeId, duration) ==
    [i \in Slots |->
        IF i \in SlotsOf(devs, nodeId) /\ i = Min(SlotsOf(devs, nodeId))
        THEN LogActiveChangeEvent(devs[i], duration)
        ELSE devs[i]]

\* Mutant: the null test is missing; the null device is dereferenced.
ActiveChangedNoNullTest(devs, map, request) ==
    IF GetDeviceByNodeId(devs, request.node_id) = NoDevice
    THEN Outcome("Died", devs, map, <<"GetDeviceByNodeId", "LogActiveChangeEvent">>)
    ELSE Outcome("Ok", LogOn(devs, request.node_id, request.promised_active_duration_ms),
                 map, <<"GetDeviceByNodeId", "LogActiveChangeEvent">>)

\* Mutant: when the device is absent the event is logged on whatever device
\* the registry holds first.
ActiveChangedLogsElsewhere(devs, map, request) ==
    IF GetDeviceByNodeId(devs, request.node_id) = NoDevice
    THEN Outcome("NotFound",
                 [i \in Slots |->
                     IF FreeSlots(devs) # Slots /\ i = Min(Slots \ FreeSlots(devs))
                     THEN LogActiveChangeEvent(devs[i], request.promised_active_duration_ms)
                     ELSE devs[i]],
                 map, <<"GetDeviceByNodeId", "LogActiveChangeEvent">>)
    ELSE Outcome("Ok", LogOn(devs, request.node_id, request.promised_active_duration_ms),
                 map, <<"GetDeviceByNodeId", "LogActiveChangeEvent">>)

\* Mutant: the device reporting the change is also marked as an ICD.
ActiveChangedSetsIcd(devs, map, request) ==
    IF GetDeviceByNodeId(devs, request.node_id) = NoDevice
    THEN Outcome("NotFound", devs, map, <<"GetDeviceByNodeId">>)
    ELSE Outcome("Ok",
                 [i \in Slots |->
                     IF devs[i] # NoDevice /\ devs[i].nodeId = request.node_id
                     THEN SetIcd(LogActiveChangeEvent(devs[i],
                                     request.promised_active_duration_ms), TRUE)
                     ELSE devs[i]],
                 map, <<"GetDeviceByNodeId", "LogActiveChangeEvent">>)

ActiveChangedOutcome(devs, map, request) ==
    LET nodeId == request.node_id
        device == GetDeviceByNodeId(devs, nodeId)
    IN  IF device = NoDevice
        THEN Outcome("NotFound", devs, map, <<"GetDeviceByNodeId">>)
        ELSE Outcome("Ok", LogOn(devs, nodeId, request.promised_active_duration_ms),
                     map, <<"GetDeviceByNodeId", "LogActiveChangeEvent">>)

----------------------------------------------------------------------------
(* The service runtime: InitRpcServer and RunRpcService. *)

\* The listening ports InitRpcServer is called with.
Ports == {33000}

\* Mutant: the thread is launched before the port is applied.
InitRpcServerBodyLaunchFirst == <<"thread", "set_socket_port", "detach">>

\* The statements of InitRpcServer, in order.
InitRpcServerBody == <<"set_socket_port", "thread", "detach">>

\* Mutant: the processing loop is started before the service is registered.
RunRpcServiceBodyStartFirst == <<"Init", "Start", "RegisterServices">>

\* The statements of RunRpcService, in order.  Start is the blocking
\* request-processing loop: it does not return.
RunRpcServiceBody == <<"Init", "RegisterServices", "Start">>

\* The runtime when InitRpcServer(port) is entered: main and run are the
\* statements InitRpcServer and the RPC thread execute next (run is 0
\* while there is no thread); port is the transport's port setting and
\* bound the port the transport was initialised on (empty while unset).
RuntimeEntered(port) ==
    [arg |-> port, main |-> 1, run |-> 0, port |-> {}, bound |-> {},
     initialised |-> FALSE, registered |-> FALSE, serving |-> FALSE]

\* The runtime once InitRpcServer(port) has returned and the RPC thread is
\* in the processing loop.
RuntimeServing(port) ==
    [arg |-> port, main |-> Len(InitRpcServerBody) + 1, run |-> Len(RunRpcServiceBody),
     port |-> {port}, bound |-> {port},
     initialised |-> TRUE, registered |-> TRUE, serving |-> TRUE]

\* One statement of InitRpcServer on the calling thread.
InitRpcServerStatement(r, statement) ==
    CASE statement = "set_socket_port" -> [r EXCEPT !.main = @ + 1, !.port = {r.arg}]
      [] statement = "thread"          -> [r EXCEPT !.main = @ + 1, !.run = 1]
      [] statement = "detach"          -> [r EXCEPT !.main = @ + 1]

\* One statement of RunRpcService on the RPC thread.
RunRpcServiceStatement(r, statement) ==
    CASE statement = "Init"             ->
            [r EXCEPT !.run = @ + 1, !.initialised = TRUE, !.bound = r.port]
      [] statement = "RegisterServices" -> [r EXCEPT !.run = @ + 1, !.registered = TRUE]
      [] statement = "Start"            -> [r EXCEPT !.serving = TRUE]

\* No handler is in progress on the RPC thread.
RpcIdle == [pc |-> "idle"]

----------------------------------------------------------------------------
(* The state machine: one RPC call per step, handled to completion on the  *)
(* transport's request-processing thread.                                  *)

\* refuse: whether the registry was out of resources during the call.
Call(op, request, refuse, out) ==
    [op |-> op, request |-> request, refuse |-> refuse,
     status |-> out.status, calls |-> out.calls]

Init ==
    /\ mDevices = [i \in Slots |-> NoDevice]
    /\ mDevicesMap = {}
    /\ halted = FALSE
    /\ last = [op |-> "None", request |-> NoDevice, refuse |-> FALSE,
               status |-> "None", calls |-> <<>>]
    /\ history = [n \in NodeIds |-> "never"]
    /\ \E port \in Ports : rt = RuntimeServing(port)
    /\ rpc = RpcIdle
    /\ mainCalls = 0

\* The processing loop takes the next request: the process runs, the loop
\* has been started and the previous request has been answered.
Dispatching ==
    /\ ~halted
    /\ rt.serving
    /\ rpc.pc = "idle"

\* Effect of a handler's outcome on the process.
Handled(op, request, refuse, out) ==
    /\ mDevices' = out.devices
    /\ mDevicesMap' = out.map
    /\ halted' = (out.status = "Died")
    /\ last' = Call(op, request, refuse, out)
    /\ UNCHANGED <<rt, rpc, mainCalls>>

\* The history of a node id after a call on it returned Ok.
Noted(nodeId, out, what) ==
    IF out.status = "Ok" THEN [history EXCEPT ![nodeId] = what] ELSE history

AddSynchronizedDevice ==
    /\ Dispatching
    /\ \E request \in AddRequests, refuse \in BOOLEAN :
         \E ep \in EndpointChoices(mDevices) :
            LET out == AddSynchronizedDeviceOutcome(mDevices, mDevicesMap, request, ep, refuse)
            IN  /\ Handled("AddSynchronizedDevice", request, refuse, out)
                /\ history' = Noted(request.node_id, out, "added")

RemoveSynchronizedDevice ==
    /\ Dispatching
    /\ \E request \in RemoveRequests :
         LET out == RemoveSynchronizedDeviceOutcome(mDevices, mDevicesMap, request)
         IN  /\ Handled("RemoveSynchronizedDevice", request, FALSE, out)
             /\ history' = Noted(request.node_id, out, "removed")

\* The activity log of a device is followed up to MaxLog events.
LogFull(devs, nodeId) ==
    /\ GetDeviceByNodeId(devs, nodeId) # NoDevice
    /\ Len(GetDeviceByNodeId(devs, nodeId).log) >= MaxLog

ActiveChanged ==
    /\ Dispatching
    /\ \E request \in ActiveChangedRequests :
         /\ ~LogFull(mDevices, request.node_id)
         /\ LET out == ActiveChangedOutcome(mDevices, mDevicesMap, request)
            IN  /\ Handled("ActiveChanged", request, FALSE, out)
                /\ UNCHANGED history

Next ==
    \/ AddSynchronizedDevice
    \/ RemoveSynchronizedDevice
    \/ ActiveChanged

Spec == Init /\ [][Next]_vars

----------------------------------------------------------------------------
(* The attribute translation alone, applied to every descriptor. *)

InitTranslate ==
    /\ mDevices = [i \in Slots |-> NoDevice]
    /\ mDevicesMap = {}
    /\ halted = FALSE
    /\ \E request \in AllDescriptors :
          last = [op |-> "Descriptor", request |-> request, refuse |-> FALSE,
                  status |-> "None", calls |-> <<>>]
    /\ history = [n \in NodeIds |-> "never"]
    /\ \E port \in Ports : rt = RuntimeServing(port)
    /\ rpc = RpcIdle
    /\ mainCalls = 0

TranslateDescriptor ==
    /\ last.op = "Descriptor"
    /\ last' = [op |-> "Translate", request |-> last.request, refuse |-> FALSE,
                status |-> "None", calls |-> <<>>, device |-> MakeDevice(last.request)]
    /\ UNCHANGED <<mDevices, mDevicesMap, halted, history, rt, rpc, mainCalls>>

SpecTranslate == InitTranslate /\ [][TranslateDescriptor]_vars

----------------------------------------------------------------------------
(* Startup: InitRpcServer on the calling thread, RunRpcService on the RPC  *)
(* thread it launches, and the requests the processing loop then takes.    *)
(* The build has the fabric bridge service enabled.                        *)

InitStartup ==
    /\ mDevices = [i \in Slots |-> NoDevice]
    /\ mDevicesMap = {}
    /\ halted = FALSE
    /\ last = [op |-> "None", request |-> NoDevice, refuse |-> FALSE,
               status |-> "None", calls |-> <<>>]
    /\ history = [n \in NodeIds |-> "never"]
    /\ \E port \in Ports : rt = RuntimeEntered(port)
    /\ rpc = RpcIdle
    /\ mainCalls = 0

InitRpcServer ==
    /\ ~halted
    /\ rt.main <= Len(InitRpcServerBody)
    /\ rt' = InitRpcServerStatement(rt, InitRpcServerBody[rt.main])
    /\ UNCHANGED <<mDevices, mDevicesMap, halted, last, history, rpc, mainCalls>>

RunRpcService ==
    /\ ~halted
    /\ rt.run \in 1..Len(RunRpcServiceBody)
    /\ ~rt.serving
    /\ rt' = RunRpcServiceStatement(rt, RunRpcServiceBody[rt.run])
    /\ UNCHANGED <<mDevices, mDevicesMap, halted, last, history, rpc, mainCalls>>

NextStartup ==
    \/ InitRpcServer
    \/ RunRpcService
    \/ AddSynchronizedDevice
    \/ RemoveSynchronizedDevice
    \/ ActiveChanged

SpecStartup == InitStartup /\ [][NextStartup]_vars

----------------------------------------------------------------------------
(* The registry shared with the bridge's main processing context.  Each    *)
(* registry call is atomic (the registry is thread-safe call by call); the *)
(* handlers hold no lock from one call to the next, so the other writer's  *)
(* calls fall between the calls of a handler.  A handler in progress is in *)
(* rpc: its request, and the slot of the device its pointer refers to,     *)
(* with dangling set once that device has been removed (destroyed).        *)

\* A call's record when it ends; stale: the handler used its device
\* pointer after the device was destroyed.
Ended(op, request, refuse, out, stale) ==
    [op |-> op, request |-> request, refuse |-> refuse,
     status |-> out.status, calls |-> out.calls, stale |-> stale]

\* The handler returns (or dies) with this outcome.
Returns(op, request, refuse, out, stale) ==
    /\ mDevices' = out.devices
    /\ mDevicesMap' = out.map
    /\ halted' = (out.status = "Died")
    /\ last' = Ended(op, request, refuse, out, stale)
    /\ rpc' = RpcIdle
    /\ UNCHANGED <<rt, mainCalls>>

\* AddSynchronizedDevice up to the registry's answer (lines 51-119).
AddCallRegistry ==
    /\ Dispatching
    /\ \E request \in AddRequests, refuse \in BOOLEAN :
         \E ep \in EndpointChoices(mDevices) :
            LET result == AddDeviceEndpoint(mDevices, MakeDevice(request),
                                            kParentEndpointId, ep, refuse)
            IN  IF ~result.has_value
                THEN /\ Returns("AddSynchronizedDevice", request, refuse,
                                AddRefused(result.devices, mDevicesMap, request.node_id,
                                           <<"AddDeviceEndpoint">>), FALSE)
                     /\ UNCHANGED history
                ELSE /\ mDevices' = result.devices
                     /\ rpc' = [pc |-> "added", request |-> request]
                     /\ UNCHANGED <<mDevicesMap, halted, last, history, rt, mainCalls>>

\* The lookup of the added device (lines 121-122).
AddCallLookup ==
    /\ ~halted
    /\ rpc.pc = "added"
    /\ LET nodeId == rpc.request.node_id
           addedDevice == GetDeviceByNodeId(mDevices, nodeId)
           made == <<"AddDeviceEndpoint", "GetDeviceByNodeId">>
       IN  IF addedDevice = NoDevice
           THEN /\ Returns("AddSynchronizedDevice", rpc.request, FALSE,
                           Outcome("Died", mDevices, mDevicesMap, made), FALSE)
                /\ UNCHANGED history
           ELSE /\ rpc' = [pc |-> "found", request |-> rpc.request,
                           slot |-> Min(SlotsOf(mDevices, nodeId)), dangling |-> FALSE]
                /\ UNCHANGED <<mDevices, mDevicesMap, halted, last, history, rt, mainCalls>>

\* What addedDevice->GetEndpointId() may read: the device's endpoint, or,
\* the device destroyed, anything.
EndpointsRead(r) ==
    IF r.dangling THEN EndpointPool \cup {kInvalidEndpointId}
    ELSE {mDevices[r.slot].endpointId}

\* The cluster attachment and the return (lines 124-128).
AddCallAttach ==
    /\ ~halted
    /\ rpc.pc = "found"
    /\ \E e \in EndpointsRead(rpc) :
         LET out == AttachCapability(mDevices, mDevicesMap, [endpointId |-> e],
                                     <<"AddDeviceEndpoint", "GetDeviceByNodeId">>)
         IN  /\ Returns("AddSynchronizedDevice", rpc.request, FALSE, out, rpc.dangling)
             /\ history' = Noted(rpc.request.node_id, out, "added")

\* ActiveChanged up to the test of the device found (lines 146-157).
ActiveChangedLookup ==
    /\ Dispatching
    /\ \E request \in ActiveChangedRequests :
         /\ ~LogFull(mDevices, request.node_id)
         /\ IF GetDeviceByNodeId(mDevices, request.node_id) = NoDevice
            THEN Returns("ActiveChanged", request, FALSE,
                         ActiveChangedOutcome(mDevices, mDevicesMap, request), FALSE)
            ELSE /\ rpc' = [pc |-> "ac_found", request |-> request,
                            slot |-> Min(SlotsOf(mDevices, request.node_id)),
                            dangling |-> FALSE]
                 /\ UNCHANGED <<mDevices, mDevicesMap, halted, last, rt, mainCalls>>
    /\ UNCHANGED history

\* What device->LogActiveChangeEvent(duration) leaves behind: the event on
\* the device, or, the device destroyed, a write to freed memory that
\* either goes unnoticed or ends the process.
LogThroughPointer(r) ==
    LET made == <<"GetDeviceByNodeId", "LogActiveChangeEvent">>
    IN  IF r.dangling
        THEN { Outcome("Ok", mDevices, mDevicesMap, made),
               Outcome("Died", mDevices, mDevicesMap, made) }
        ELSE { Outcome("Ok",
                       LogOn(mDevices, r.request.node_id,
                             r.request.promised_active_duration_ms),
                       mDevicesMap, made) }

\* The telemetry update and the return (lines 159-160).
ActiveChangedLog ==
    /\ ~halted
    /\ rpc.pc = "ac_found"
    /\ \E out \in LogThroughPointer(rpc) :
         Returns("ActiveChanged", rpc.request, FALSE, out, rpc.dangling)
    /\ UNCHANGED history

\* RemoveSynchronizedDevice makes one registry call (lines 131-144).
RemoveCall ==
    /\ Dispatching
    /\ \E request \in RemoveRequests :
         LET out == RemoveSynchronizedDeviceOutcome(mDevices, mDevicesMap, request)
         IN  /\ Returns("RemoveSynchronizedDevice", request, FALSE, out, FALSE)
             /\ history' = Noted(request.node_id, out, "removed")

\* The handler's pointer after the other writer has changed the registry:
\* it dangles once the device in its slot has been removed.
Pointer(r, removedSlot) ==
    IF r.pc \in {"found", "ac_found"} /\ r.slot = removedSlot
    THEN [r EXCEPT !.dangling = TRUE]
    ELSE r

\* The main context removes a device from the registry.
MainRemoveDevice ==
    /\ ~halted
    /\ rt.serving
    /\ mainCalls < MaxMainCalls
    /\ \E nodeId \in NodeIds :
         LET removed_idx == RemoveDeviceByNodeId(mDevices, nodeId)
         IN  /\ removed_idx.has_value
             /\ mDevices' = removed_idx.devices
             /\ rpc' = Pointer(rpc, removed_idx.index)
    /\ mainCalls' = mainCalls + 1
    /\ UNCHANGED <<mDevicesMap, halted, last, history, rt>>

\* The main context adds a device to the registry.
MainAddDevice ==
    /\ ~halted
    /\ rt.serving
    /\ mainCalls < MaxMainCalls
    /\ \E request \in AddRequests : \E ep \in EndpointChoices(mDevices) :
         LET result == AddDeviceEndpoint(mDevices, MakeDevice(request),
                                         kParentEndpointId, ep, FALSE)
         IN  /\ result.has_value
             /\ mDevices' = result.devices
    /\ mainCalls' = mainCalls + 1
    /\ UNCHANGED <<mDevicesMap, halted, last, history, rt, rpc>>

NextShared ==
    \/ AddCallRegistry
    \/ AddCallLookup
    \/ AddCallAttach
    \/ ActiveChangedLookup
    \/ ActiveChangedLog
    \/ RemoveCall
    \/ MainRemoveDevice
    \/ MainAddDevice

SpecShared == Init /\ [][NextShared]_vars

----------------------------------------------------------------------------
(* Properties. *)

\* The node id of the call that led to this state.
LastNodeId == last.request.node_id

IsAdd(call) == call.op = "AddSynchronizedDevice"
IsRemove(call) == call.op = "RemoveSynchronizedDevice"
IsActiveChanged(call) == call.op = "ActiveChanged"

\* C1: no two registered devices have the same node identifier.
C1_UniqueNodeIds ==
    \A i, j \in Slots :
        (i # j /\ mDevices[i] # NoDevice /\ mDevices[j] # NoDevice)
            => mDevices[i].nodeId # mDevices[j].nodeId

\* After an Add, a Remove, another Add and an ActiveChanged, an Add of the
\* registered node id was attempted.
C1_Witness ==
    /\ IsAdd(last) /\ LastNodeId \in RegisteredNodeIds(mDevices)
    /\ \E n \in NodeIds : history[n] = "removed"
    /\ \E d \in Registered(mDevices) : d.log # <<>>

\* C2: an Add of a node id that is registered returns Unknown and leaves
\* the registered device exactly as it was.
C2_DuplicateAddRejected ==
    [][ (IsAdd(last') /\ last'.request.node_id \in RegisteredNodeIds(mDevices))
          => /\ last'.status = "Unknown"
             /\ GetDeviceByNodeId(mDevices', last'.request.node_id)
                  = GetDeviceByNodeId(mDevices, last'.request.node_id) ]_vars

\* A duplicate Add whose descriptor differs from the registered device's
\* attributes was answered, the registry having room for another device and
\* resources to add it.
C2_Witness ==
    /\ IsAdd(last) /\ last.status = "Unknown" /\ ~last.refuse
    /\ FreeSlots(mDevices) # {}
    /\ LastNodeId \in RegisteredNodeIds(mDevices)
    /\ GetDeviceByNodeId(mDevices, LastNodeId).attributes # Translate(last.request)
    /\ GetDeviceByNodeId(mDevices, LastNodeId).log # <<>>

\* C3: an Add that returns has either returned Ok, having registered the
\* device and attached the cluster to its endpoint, or returned Unknown,
\* having registered nothing and attached nothing.
C3_NoPartialAdd ==
    [][ IsAdd(last') =>
          \/ /\ last'.status = "Ok"
             /\ last'.request.node_id \notin RegisteredNodeIds(mDevices)
             /\ last'.request.node_id \in RegisteredNodeIds(mDevices')
             /\ GetDeviceByNodeId(mDevices', last'.request.node_id).endpointId
                  \in mDevicesMap'
          \/ /\ last'.status = "Unknown"
             /\ mDevices' = mDevices
             /\ mDevicesMap' = mDevicesMap
          \/ /\ last'.status = "Died"
             /\ halted' ]_vars

\* An Add returned Ok with the cluster on the new device's endpoint.
C3_Witness ==
    /\ IsAdd(last) /\ last.status = "Ok" /\ ~halted
    /\ GetDeviceByNodeId(mDevices, LastNodeId).endpointId \in mDevicesMap

RegistryRefuses(devs, call) ==
    \/ call.refuse
    \/ call.request.node_id \in RegisteredNodeIds(devs)
    \/ FreeSlots(devs) = {}

\* C5: when the registry refuses the add, Unknown is returned after the one
\* add attempt, without lookup or attachment, and nothing is retained.
C5_RefusedAdd ==
    [][ (IsAdd(last') /\ RegistryRefuses(mDevices, last'))
          => /\ last'.status = "Unknown"
             /\ last'.calls = <<"AddDeviceEndpoint">>
             /\ mDevices' = mDevices
             /\ mDevicesMap' = mDevicesMap
             /\ ~halted' ]_vars

\* The registry, full, refused a node id it does not hold.
C5_Witness ==
    /\ IsAdd(last) /\ last.status = "Unknown" /\ ~last.refuse
    /\ FreeSlots(mDevices) = {}
    /\ LastNodeId \notin RegisteredNodeIds(mDevices)

\* C6: after Add returns Ok, a find by the same node id returns a reachable
\* device whose attributes are the translation of the request.
C6_AddThenFind ==
    (IsAdd(last) /\ last.status = "Ok")
        => /\ GetDeviceByNodeId(mDevices, LastNodeId) # NoDevice
           /\ GetDeviceByNodeId(mDevices, LastNodeId).nodeId = LastNodeId
           /\ GetDeviceByNodeId(mDevices, LastNodeId).reachable
           /\ GetDeviceByNodeId(mDevices, LastNodeId).attributes = Translate(last.request)

\* Add of a descriptor with the vendor name alone returned Ok: the device
\* found has that vendor name and every other attribute at its default.
C6_Witness ==
    /\ IsAdd(last) /\ last.status = "Ok"
    /\ last.request.has_vendor_name /\ ~last.request.has_unique_id
    /\ last.request.vendor_name # Str(0)
    /\ GetDeviceByNodeId(mDevices, LastNodeId).attributes =
         [DefaultAttributes EXCEPT !.vendorName = last.request.vendor_name]

\* One attribute field against its descriptor slot and presence flag.
FieldTranslated(has, slot, attr, default) ==
    /\ has => attr = slot
    /\ ~has => attr = default
    /\ slot # default => (attr = slot <=> has)

\* C7: each of the ten attribute fields holds the descriptor's value when
\* the field's presence flag is set and the type default when it is not,
\* whatever the slot holds; a slot value other than the default is in the
\* attribute if and only if the flag is set.
C7_PresenceFlags ==
    last.op = "Translate" =>
        LET r == last.request
            a == last.device.attributes
        IN  /\ FieldTranslated(r.has_unique_id, r.unique_id, a.uniqueId, Str(0))
            /\ FieldTranslated(r.has_vendor_name, r.vendor_name, a.vendorName, Str(0))
            /\ FieldTranslated(r.has_vendor_id, r.vendor_id, a.vendorId, 0)
            /\ FieldTranslated(r.has_product_name, r.product_name, a.productName, Str(0))
            /\ FieldTranslated(r.has_product_id, r.product_id, a.productId, 0)
            /\ FieldTranslated(r.has_node_label, r.node_label, a.nodeLabel, Str(0))
            /\ FieldTranslated(r.has_hardware_version, r.hardware_version,
                               a.hardwareVersion, 0)
            /\ FieldTranslated(r.has_hardware_version_string, r.hardware_version_string,
                               a.hardwareVersionString, Str(0))
            /\ FieldTranslated(r.has_software_version, r.software_version,
                               a.softwareVersion, 0)
            /\ FieldTranslated(r.has_software_version_string, r.software_version_string,
                               a.softwareVersionString, Str(0))

\* A descriptor was translated whose vendor name slot holds a stray value
\* (flag unset) while its product name is present.
C7_Witness ==
    /\ last.op = "Translate"
    /\ ~last.request.has_vendor_name /\ last.request.vendor_name # Str(0)
    /\ last.request.has_product_name /\ last.request.product_name # Str(0)
    /\ last.device.attributes.vendorName = Str(0)
    /\ last.device.attributes.productName = last.request.product_name

\* C8: Remove of a node id that was never added returns NotFound and leaves
\* the registry as it was.
C8_RemoveNeverAdded ==
    [][ (IsRemove(last') /\ history[last'.request.node_id] = "never")
          => /\ last'.status = "NotFound"
             /\ mDevices' = mDevices
             /\ Cardinality(Registered(mDevices')) = Cardinality(Registered(mDevices)) ]_vars

\* Remove of a node id never added was answered while another device was
\* registered.
C8_Witness ==
    /\ IsRemove(last) /\ last.status = "NotFound"
    /\ history[LastNodeId] = "never"
    /\ Registered(mDevices) # {}

\* C9: from a Remove of n that returned Ok until the next Add of n that
\* returns Ok, every Remove(n) and ActiveChanged(n) returns NotFound and
\* the process keeps running.
C9_RemovedStaysAbsent ==
    [][ ((IsRemove(last') \/ IsActiveChanged(last'))
            /\ history[last'.request.node_id] = "removed")
          => /\ last'.status = "NotFound"
             /\ ~halted' ]_vars

\* A second Remove of a removed node id was answered NotFound.
C9_Witness ==
    /\ IsRemove(last) /\ last.status = "NotFound"
    /\ history[LastNodeId] = "removed"
    /\ ~halted

\* C10: ActiveChanged on a node id with no registered device returns
\* NotFound, logs no event and changes nothing in the registry.
C10_ActiveChangedAbsent ==
    [][ (IsActiveChanged(last') /\ last'.request.node_id \notin RegisteredNodeIds(mDevices))
          => /\ last'.status = "NotFound"
             /\ last'.calls = <<"GetDeviceByNodeId">>
             /\ mDevices' = mDevices
             /\ mDevicesMap' = mDevicesMap
             /\ ~halted' ]_vars

\* ActiveChanged on an absent node id was answered while a registered
\* device had an event logged.
C10_Witness ==
    /\ IsActiveChanged(last) /\ last.status = "NotFound"
    /\ LastNodeId \notin RegisteredNodeIds(mDevices)
    /\ \E d \in Registered(mDevices) : d.log # <<>>

\* C11: ActiveChanged on a registered node id returns Ok and logs the
\* request's duration, as given, once on that device; every other device
\* is as it was.
C11_ActiveChangedForwards ==
    [][ (IsActiveChanged(last') /\ last'.request.node_id \in RegisteredNodeIds(mDevices))
          => /\ last'.status = "Ok"
             /\ ~halted'
             /\ last'.calls = <<"GetDeviceByNodeId", "LogActiveChangeEvent">>
             /\ GetDeviceByNodeId(mDevices', last'.request.node_id).log
                  = Append(GetDeviceByNodeId(mDevices, last'.request.node_id).log,
                           last'.request.promised_active_duration_ms)
             /\ \A i \in Slots :
                  (mDevices[i] = NoDevice \/ mDevices[i].nodeId # last'.request.node_id)
                      => mDevices'[i] = mDevices[i] ]_vars

\* ActiveChanged with 5000 ms was answered Ok; the device holds that event
\* and another registered device holds none.
C11_Witness ==
    /\ IsActiveChanged(last) /\ last.status = "Ok"
    /\ last.request.promised_active_duration_ms = 5000
    /\ GetDeviceByNodeId(mDevices, LastNodeId).log = <<5000>>
    /\ \E d \in Registered(mDevices) : d.nodeId # LastNodeId /\ d.log = <<>>

\* C12: a call that returns gives one of Ok, NotFound, Unknown: Add gives
\* Ok or Unknown, Remove and ActiveChanged give Ok or NotFound; a call that
\* gives nothing has halted the process.
C12_StatusPerOperation ==
    /\ IsAdd(last) => (IF halted THEN last.status = "Died"
                                 ELSE last.status \in {"Ok", "Unknown"})
    /\ IsRemove(last) => (~halted /\ last.status \in {"Ok", "NotFound"})
    /\ IsActiveChanged(last) => (~halted /\ last.status \in {"Ok", "NotFound"})

\* A Remove was answered NotFound while the registry was full.
C12_Witness ==
    /\ IsRemove(last) /\ last.status = "NotFound"
    /\ FreeSlots(mDevices) = {}

\* C14: the port passed to InitRpcServer is applied before the RPC thread
\* is launched; the thread initialises the transport (on that port), then
\* registers the service, then starts the processing loop; a request is
\* handled only with the port applied and the service registered.
C14_StartupOrder ==
    /\ rt.run > 0 => rt.port = {rt.arg}
    /\ rt.initialised => (rt.run > 0 /\ rt.bound = {rt.arg})
    /\ rt.registered => rt.initialised
    /\ rt.serving => rt.registered
    /\ last.op # "None" => (rt.port = {rt.arg} /\ rt.registered /\ rt.serving)

\* A request was answered while InitRpcServer had launched the thread but
\* not yet returned.
C14_Witness ==
    /\ last.op # "None"
    /\ rt.main <= Len(InitRpcServerBody)
    /\ rt.serving

\* C13: the lookup of the device just added never misses, whatever the
\* other writers of the registry do meanwhile.
C13_LookupNeverMisses ==
    ~ /\ IsAdd(last)
      /\ last.status = "Died"
      /\ last.calls = <<"AddDeviceEndpoint", "GetDeviceByNodeId">>

\* C15: the device built for an Add request is marked as an ICD exactly
\* when the request's is_icd presence flag is set and its is_icd value is
\* true; with the flag unset the value in the slot does not matter.
C15_IcdFromFlagAndValue ==
    last.op = "Translate" =>
        /\ last.device.icd = (last.request.has_is_icd /\ last.request.is_icd)
        /\ ~last.request.has_is_icd => ~last.device.icd

C15_Witness ==
    /\ last.op = "Translate"
    /\ ~last.request.has_is_icd
    /\ last.request.is_icd
    /\ ~last.device.icd

\* What ActiveChanged leaves alone in a device: everything but its log.
SameButLog(before, after) ==
    IF before = NoDevice \/ after = NoDevice
    THEN before = after
    ELSE /\ after.nodeId = before.nodeId
         /\ after.endpointId = before.endpointId
         /\ after.parentEndpointId = before.parentEndpointId
         /\ after.attributes = before.attributes
         /\ after.reachable = before.reachable
         /\ after.icd = before.icd

\* C16: ActiveChanged changes activity telemetry only: the registered node
\* ids, each device's endpoint, bridged attributes, reachability and ICD
\* flag, and the endpoints carrying the cluster are the same after the call.
C16_ActiveChangedFrame ==
    [][ IsActiveChanged(last') =>
          /\ RegisteredNodeIds(mDevices') = RegisteredNodeIds(mDevices)
          /\ \A i \in Slots : SameButLog(mDevices[i], mDevices'[i])
          /\ mDevicesMap' = mDevicesMap ]_vars

C16_Witness ==
    /\ IsActiveChanged(last)
    /\ last.status = "Ok"
    /\ mDevicesMap # {}
    /\ \E i \in Slots :
         /\ mDevices[i] # NoDevice
         /\ mDevices[i].nodeId = last.request.node_id
         /\ mDevices[i].log # <<>>
         /\ ~mDevices[i].icd

\* C17: the ecosystem information cluster is attached only to endpoints of
\* registered devices: once a Remove has returned Ok, the released endpoint
\* no longer carries the cluster.
C17_CapabilityOnlyOnRegistered ==
    mDevicesMap \subseteq UsedEndpoints(mDevices)

\* C18: ActiveChanged never calls LogActiveChangeEvent on a device that has
\* been removed (destroyed) since the handler looked it up.
C18_NoLogOnRemoved ==
    ~ /\ IsActiveChanged(last)
      /\ last.calls = <<"GetDeviceByNodeId", "LogActiveChangeEvent">>
      /\ last.stale

\* C19: every registered device is reachable and carries the attributes and
\* ICD flag computed from the Add request that created it: a device enters
\* the registry only by an Add of its node id, with the values of that
\* request, and no step changes them while it stays registered.
C19_DevicesKeepAddValues ==
    [][ \A n \in RegisteredNodeIds(mDevices') :
          LET after == GetDeviceByNodeId(mDevices', n)
              before == GetDeviceByNodeId(mDevices, n)
          IN  /\ after.reachable
              /\ IF before # NoDevice
                 THEN /\ after.attributes = before.attributes
                      /\ after.icd = before.icd
                 ELSE /\ IsAdd(last')
                      /\ last'.request.node_id = n
                      /\ after.attributes = Translate(last'.request)
                      /\ after.icd = (last'.request.has_is_icd /\ last'.request.is_icd) ]_vars

C19_Witness ==
    /\ IsRemove(last)
    /\ last.status = "Ok"
    /\ \E i \in Slots :
         /\ mDevices[i] # NoDevice
         /\ mDevices[i].reachable
         /\ mDevices[i].icd
         /\ mDevices[i].attributes # DefaultAttributes
         /\ mDevices[i].log # <<>>

====
